---- MODULE Spec2Model ----
(***************************************************************************)
(* Model of scripts/data/generate_ecommerce_data.py: the synthetic         *)
(* e-commerce data generator (products, customers, orders, order items,    *)
(* support conversations) and its orchestration by generate_all_data.      *)
(*                                                                         *)
(* Money.  A value that the code rounds to two decimals is held as an      *)
(* integer number of cents.  A binary64 value that the code has not yet    *)
(* rounded (the pandas sum of final prices) is held as a record            *)
(* [c, d]: the value is c/100 + d * W dollars, with W = 2^-50 / 100.       *)
(* Every binary64 number of magnitude >= 4 is a whole multiple of 2^-50,   *)
(* so for the prices of this catalogue (never below 7.00) c and d are      *)
(* integers and binary64 addition is computed exactly as IEEE 754 does.    *)
(*                                                                         *)
(* Time.  A date is a number of days, a datetime a number of ticks of the  *)
(* clock (TicksPerDay to a day); the clock is the variable now.            *)
(*                                                                         *)
(* Randomness.  A random draw is a choice among the values the draw can    *)
(* take.  The generator loops take the set of draws to explore as a        *)
(* parameter (GenerateProductFrom, GenerateCustomerFrom,                   *)
(* GenerateProductEmbeddingsFrom), so that a generator looked at on its    *)
(* own is explored on more draws than the full run.                        *)
(***************************************************************************)
EXTENDS Integers, Naturals, Sequences, FiniteSets, TLC

\* ------------------------------------------------------------------------
\* Generic helpers
\* ------------------------------------------------------------------------

RECURSIVE Pow2(_)
Pow2(k) == IF k = 0 THEN 1 ELSE 2 * Pow2(k - 1)

\* 2^k modulo 100, without ever forming 2^k
RECURSIVE Pow2Mod100(_)
Pow2Mod100(k) == IF k = 0 THEN 1 ELSE (2 * Pow2Mod100(k - 1)) % 100

RECURSIVE NumDigits(_)
NumDigits(n) == IF n < 10 THEN 1 ELSE 1 + NumDigits(n \div 10)

RECURSIVE Digits(_, _)
Digits(n, w) == IF w = 0 THEN << >> ELSE Append(Digits(n \div 10, w - 1), n % 10)

\* format(n, "0{w}d"): the decimal digits of n, left-padded with zeros to
\* width w, and wider than w when n needs more digits
ZeroPad(n, w) == Digits(n, IF NumDigits(n) > w THEN NumDigits(n) ELSE w)

RECURSIVE SeqSum(_)
SeqSum(s) == IF s = << >> THEN 0 ELSE Head(s) + SeqSum(Tail(s))

Range(s) == {s[k] : k \in DOMAIN s}

Sign(x) == IF x > 0 THEN 1 ELSE IF x < 0 THEN -1 ELSE 0

\* df.sample(k): every ordered selection of k distinct rows of df
Sample(df, k) ==
    { [j \in 1..k |-> df[f[j]]] :
        f \in { g \in [1..k -> DOMAIN df] :
                  \A a, b \in 1..k : a # b => g[a] # g[b] } }

Min(a, b) == IF a < b THEN a ELSE b

\* ------------------------------------------------------------------------
\* Rounding and binary64 addition
\* ------------------------------------------------------------------------

\* round(x, 2) of x = n/den cents (den > 0): the nearest integer number of
\* cents.  An exact tie in the decimal value is decided by the sign of the
\* binary64 error of x (bias), and by round-half-even when there is none.
RoundDiv(n, den, bias) ==
    LET q == n \div den
        r == n % den
    IN  IF 2 * r < den THEN q
        ELSE IF 2 * r > den THEN q + 1
        ELSE IF bias > 0 THEN q + 1
        ELSE IF bias < 0 THEN q
        ELSE IF q % 2 = 0 THEN q ELSE q + 1

\* binary exponent e of the value c/100 + d*W:  2^e <= value < 2^(e+1)
RECURSIVE Log2Floor(_)
Log2Floor(n) == IF n < 2 THEN 0 ELSE 1 + Log2Floor(n \div 2)

FloatExp(c, d) ==
    LET e == Log2Floor(c \div 100)
    IN  IF c = 100 * Pow2(e) /\ d < 0 THEN e - 1 ELSE e

\* (c * 2^50 + d) modulo 100 * 2^k: the position of the value c/100 + d*W
\* inside the grid of multiples of 2^(k-50), in units of W
VMod(c, d, k) ==
    (Pow2(k) * (((c % 100) * Pow2Mod100(50 - k)) % 100) + d) % (100 * Pow2(k))

\* round-to-nearest-even of the exact value c/100 + d*W to a binary64
FloatRound(c, d) ==
    LET k   == FloatExp(c, d) - 2
        G   == 100 * Pow2(k)
        R   == VMod(c, d, k)
        odd == VMod(c, d, k + 1) >= G
    IN  IF R = 0 THEN [c |-> c, d |-> d]
        ELSE IF 2 * R < G THEN [c |-> c, d |-> d - R]
        ELSE IF 2 * R > G THEN [c |-> c, d |-> d + (G - R)]
        ELSE IF odd THEN [c |-> c, d |-> d + (G - R)]
        ELSE [c |-> c, d |-> d - R]

\* the binary64 nearest to the two-decimal value c/100 (what round(x, 2)
\* returns and what a stored price is)
FloatOfCents(c) == IF c = 0 THEN [c |-> 0, d |-> 0] ELSE FloatRound(c, 0)

FloatZero == [c |-> 0, d |-> 0]

\* binary64 addition x + y
FloatAdd(x, y) ==
    IF x = FloatZero THEN y
    ELSE IF y = FloatZero THEN x
    ELSE FloatRound(x.c + y.c, x.d + y.d)

\* Series.sum() of a float64 column of fewer than 8 values: accumulate left
\* to right from 0.0
RECURSIVE FloatSum(_)
FloatSum(cents) ==
    IF cents = << >> THEN FloatZero
    ELSE FloatAdd(FloatSum(SubSeq(cents, 1, Len(cents) - 1)),
                  FloatOfCents(cents[Len(cents)]))

\* x > t for a binary64 x and a whole number of cents t that is exactly
\* representable (50 is)
FloatGreater(x, t) == x.c > t \/ (x.c = t /\ x.d > 0)


\* ------------------------------------------------------------------------
\* Program constants
\* ------------------------------------------------------------------------

PRODUCT_CATEGORIES ==
    ( "Electronics" :>
        [ subcategories |-> << "Laptops", "Smartphones", "Tablets", "Accessories", "Audio", "Cameras" >>,
          price_range   |-> << 50, 2000 >> ] ) @@
    ( "Clothing" :>
        [ subcategories |-> << "Men's Wear", "Women's Wear", "Kids", "Shoes", "Accessories" >>,
          price_range   |-> << 20, 300 >> ] ) @@
    ( "Home & Kitchen" :>
        [ subcategories |-> << "Furniture", "Appliances", "Decor", "Kitchenware", "Bedding" >>,
          price_range   |-> << 30, 1500 >> ] ) @@
    ( "Sports & Outdoors" :>
        [ subcategories |-> << "Fitness", "Camping", "Cycling", "Water Sports", "Team Sports" >>,
          price_range   |-> << 25, 800 >> ] ) @@
    ( "Books & Media" :>
        [ subcategories |-> << "Fiction", "Non-Fiction", "Textbooks", "Magazines", "E-books" >>,
          price_range   |-> << 10, 150 >> ] )

\* list(PRODUCT_CATEGORIES.keys())
CategoryKeys == DOMAIN PRODUCT_CATEGORIES

\* random.choice([5, 10, 15, 20, 25, 30]) if has_discount else 0
DISCOUNTS == {0, 5, 10, 15, 20, 25, 30}

\* random.choices([1, 2, 3, 4, 5], ...) for the item count of an order
NUM_ITEMS_CHOICES == 1..5

\* QUANTITY_CHOICES with a fourth unit on offer
QUANTITY_CHOICES_four == 1..4

\* random.choices([1, 2, 3], ...) for the quantity of an order item
QUANTITY_CHOICES == 1..3

\* subtotal * 0.08, as a percentage
TAX_PERCENT == 8

\* shipping = 0 if subtotal > 50 else 9.99, both in cents
FREE_SHIPPING_OVER == 5000

FLAT_SHIPPING == 999

\* the customer segments with the ranges of random.randint for total_orders
\* and of random.uniform for total_spent (dollars)
SEGMENTS ==
    [ high_value |-> [ total_orders |-> << 50, 200 >>, total_spent |-> << 5000, 50000 >> ],
      regular    |-> [ total_orders |-> << 10, 50 >>,  total_spent |-> << 1000, 5000 >> ],
      occasional |-> [ total_orders |-> << 2, 10 >>,   total_spent |-> << 100, 1000 >> ],
      new        |-> [ total_orders |-> << 0, 2 >>,    total_spent |-> << 0, 200 >> ] ]

\* the status lists of generate_orders by days since the order
EARLY_STATUSES == { "pending", "processing" }

SHIPPED_STATUSES == { "shipped", "in_transit" }

FINAL_STATUSES == { "delivered", "cancelled", "returned" }

\* timedelta(days=random.randint(2, 10))
DELIVERY_DAYS == 2..10

\* date_between(start_date="-3y"): the days of three years, to within a day
SIGNUP_DAYS == 3 * 365

\* date_between(start_date="-2y"): the days of two years, to within a day
CREATED_DAYS == 2 * 365

\* ------------------------------------------------------------------------
\* Time
\* ------------------------------------------------------------------------

\* A datetime is held as a number of ticks, a date as a number of days; a
\* day has TicksPerDay ticks.  None stands for a missing datetime.
TicksPerDay == 2

None == << >>

\* a date used as a datetime: the start of that day
Midnight(day) == day * TicksPerDay

\* date.today() at clock time t
Today(t) == t \div TicksPerDay

\* the dates the offset "-6m" of date_between can stand for on the day
\* today.  The date library is not part of the repository: read as six
\* minutes the offset leads to the day before today, read as six months to
\* about 183 days before today
OffsetDates(today) == { today - 1, today - 183 }

\* the day on which the runs explored below take place
RunDay == 800

\* (a - b).days of two datetimes: the whole days of the difference,
\* rounded down also when the difference is negative
DaysBetween(a, b) ==
    IF a >= b THEN (a - b) \div TicksPerDay
    ELSE 0 - (((b - a) + TicksPerDay - 1) \div TicksPerDay)

\* ------------------------------------------------------------------------
\* State
\* ------------------------------------------------------------------------

VARIABLES
    pc,               \* the stage that is running, or "done" / "returned" / "error"
    err,              \* the exception that ended the run, "none" while there is none
    n,                \* the requested counts: products, customers, orders, conversations
    i,                \* the index of the running loop (for i in range(...))
    df_products,      \* the product table
    df_customers,     \* the customer table
    df_orders,        \* the order table
    df_order_items,   \* the order item table
    conversations,    \* the conversation records appended so far
    order,            \* the local variable `order` of generate_support_conversations
    embeddings,       \* the mapping returned by generate_product_embeddings
    written,          \* the files written to the output directory
    now,              \* the clock: the time datetime.now() returns, in ticks
    rng,              \* the generators that were seeded, and what their seeds fix
    previous          \* the tables of an earlier run with the same seed, or None

vars == << pc, err, n, i, df_products, df_customers, df_orders, df_order_items,
           conversations, order, embeddings, written, now, rng, previous >>

tables == << df_products, df_customers, df_orders, df_order_items, conversations >>

\* an uncaught exception leaves every table as it is and ends the run
Raise(e) ==
    /\ pc' = "error"
    /\ err' = e
    /\ UNCHANGED << n, i, tables, order, embeddings, written, now, rng, previous >>

\* no seed is looked at: a draw can take any of its values
Unseeded == [ seeded |-> {} ]

\* ------------------------------------------------------------------------
\* generate_products
\* ------------------------------------------------------------------------

\* FinalPrice with the discount added to the price
FinalPrice_surcharge(base_mills, discount) ==
    RoundDiv(base_mills * (100 + discount), 1000, 0)

\* final_price = round(base_price * (1 - discount/100), 2); base_price is
\* the unrounded draw, in thousandths of a dollar, the result is in cents
FinalPrice(base_mills, discount) ==
    RoundDiv(base_mills * (100 - discount), 1000, 0)

\* the product dict built by iteration i for the draws (category,
\* base_price, discount, created_date, updated_date)
Product(k, category, base_mills, discount, created_date, updated_date) ==
    [ product_id       |-> << "PROD-", ZeroPad(k + 1, 5) >>,
      category         |-> category,
      base_price       |-> RoundDiv(base_mills, 10, 0),
      discount_percent |-> discount,
      final_price      |-> FinalPrice(base_mills, discount),
      created_date     |-> created_date,
      updated_date     |-> updated_date ]

\* IsProductDraw with each of the two dates drawn up to today
IsProductDraw_any_dates(d, today) ==
    /\ d.category \in CategoryKeys
    /\ d.base >= 1000 * PRODUCT_CATEGORIES[d.category].price_range[1]
    /\ d.base <= 1000 * PRODUCT_CATEGORIES[d.category].price_range[2]
    /\ d.discount \in DISCOUNTS
    /\ d.created_date >= today - CREATED_DAYS /\ d.created_date <= today
    /\ d.updated_date >= today - CREATED_DAYS /\ d.updated_date <= today

\* the values the random draws of one iteration can take on the day today:
\* a category, a base price within the price range of the category, a
\* discount, a created_date from two years ago to the date of the offset
\* "-6m" and an updated_date from that date to today
IsProductDraw(d, today) ==
    /\ d.category \in CategoryKeys
    /\ d.base >= 1000 * PRODUCT_CATEGORIES[d.category].price_range[1]
    /\ d.base <= 1000 * PRODUCT_CATEGORIES[d.category].price_range[2]
    /\ d.discount \in DISCOUNTS
    /\ \E boundary \in OffsetDates(today) :
          /\ d.created_date >= today - CREATED_DAYS
          /\ d.created_date <= boundary
          /\ d.updated_date >= boundary
          /\ d.updated_date <= today

\* the dates given to the products of the catalogues below
CatalogueCreated == RunDay - 400

CatalogueUpdated == RunDay - 1

\* the draws explored for a generated catalogue
ProductDraws ==
    { [category |-> "Electronics", base |-> 59990, discount |-> 0,
       created_date |-> CatalogueCreated, updated_date |-> CatalogueUpdated],
      [category |-> "Books & Media",  base |-> 24996, discount |-> 20,
       created_date |-> CatalogueCreated, updated_date |-> CatalogueUpdated] }

\* one iteration of the loop of generate_products, its draws taken from
\* the set draws
GenerateProductFrom(draws) ==
    /\ pc = "products"
    /\ i < n.products
    /\ \E d \in { x \in draws : IsProductDraw(x, Today(now)) } :
         df_products' = Append(df_products,
                               Product(i, d.category, d.base, d.discount,
                                       d.created_date, d.updated_date))
    /\ i' = i + 1
    /\ UNCHANGED << pc, err, n, df_customers, df_orders, df_order_items,
                    conversations, order, embeddings, written, now, rng, previous >>

GenerateProduct == GenerateProductFrom(ProductDraws)

\* ------------------------------------------------------------------------
\* generate_customers
\* ------------------------------------------------------------------------

\* random.sample(list(PRODUCT_CATEGORIES.keys()), k=random.randint(1, 3)):
\* the sequences of 1 to 3 distinct categories
IsPreferredDraw(cats) ==
    /\ Len(cats) \in 1..3
    /\ \A a, b \in DOMAIN cats : cats[a] \in CategoryKeys /\ (a # b => cats[a] # cats[b])

\* the draws explored for a generated customer
PreferredDraws ==
    { cats \in { << "Electronics" >>, << "Clothing", "Home & Kitchen" >> } :
        IsPreferredDraw(cats) }

Max(a, b) == IF a > b THEN a ELSE b

\* AvgOrderDivisor without max(total_orders, 1) for the segment new
AvgOrderDivisor_no_max(segment, total_orders) == total_orders

\* the divisor of avg_order: total_orders, and max(total_orders, 1) for
\* the segment new
AvgOrderDivisor(segment, total_orders) ==
    IF segment = "new" THEN Max(total_orders, 1) ELSE total_orders

\* round(avg_order, 2) in cents, for a total_spent in thousandths of a
\* dollar; the division is the real one, of the unrounded total_spent
AverageOrderValue(total_spent, divisor) == RoundDiv(total_spent, 10 * divisor, 0)

\* the values the random draws of one iteration can take on the day today:
\* a signup date within the last three years, a segment, a total_orders and
\* a total_spent (thousandths of a dollar) within the ranges of the
\* segment, and the preferred categories
IsCustomerDraw(d, today) ==
    /\ d.signup_date >= today - SIGNUP_DAYS
    /\ d.signup_date <= today
    /\ d.segment \in DOMAIN SEGMENTS
    /\ d.total_orders >= SEGMENTS[d.segment].total_orders[1]
    /\ d.total_orders <= SEGMENTS[d.segment].total_orders[2]
    /\ d.total_spent >= 1000 * SEGMENTS[d.segment].total_spent[1]
    /\ d.total_spent <= 1000 * SEGMENTS[d.segment].total_spent[2]
    /\ IsPreferredDraw(d.preferred)

\* the draws explored for a generated customer: signed up on the day of the
\* run, segment new, no order yet
CustomerDraws ==
    { [ signup_date |-> RunDay, segment |-> "new", total_orders |-> 0,
        total_spent |-> 19999, preferred |-> p ] : p \in PreferredDraws }

\* the customer dict built by iteration k for the draws d.
\* preferred_categories is stored joined by "," and split again by
\* generate_orders; no category name holds a comma, so the list of names
\* is kept
Customer(k, d) ==
    [ customer_id          |-> << "CUST-", ZeroPad(k + 1, 6) >>,
      email                |-> << "email", k + 1 >>,
      signup_date          |-> d.signup_date,
      segment              |-> d.segment,
      total_orders         |-> d.total_orders,
      total_spent          |-> RoundDiv(d.total_spent, 10, 0),
      average_order_value  |-> AverageOrderValue(d.total_spent,
                                   AvgOrderDivisor(d.segment, d.total_orders)),
      preferred_categories |-> d.preferred ]

\* one iteration of the loop of generate_customers, its draws taken from
\* the set draws
GenerateCustomerFrom(draws) ==
    /\ pc = "customers"
    /\ i < n.customers
    /\ \E d \in { x \in draws : IsCustomerDraw(x, Today(now)) } :
         IF AvgOrderDivisor(d.segment, d.total_orders) = 0
         THEN Raise("ZeroDivisionError")
         ELSE /\ df_customers' = Append(df_customers, Customer(i, d))
              /\ i' = i + 1
              /\ UNCHANGED << pc, err, n, df_products, df_orders, df_order_items,
                              conversations, order, embeddings, written, now, rng, previous >>

GenerateCustomer == GenerateCustomerFrom(CustomerDraws)

\* ------------------------------------------------------------------------
\* generate_orders
\* ------------------------------------------------------------------------

\* round(subtotal, 2) of the binary64 sum: its error is far below half a cent
StoredSubtotal(subtotal) == subtotal.c

\* Tax truncated to whole cents instead of rounded
Tax_truncated(subtotal) == (TAX_PERCENT * subtotal.c) \div 100

\* tax = round(subtotal * 0.08, 2), from the unrounded subtotal.  The
\* binary64 product is within 1e-10 of 8 * c / 10000 dollars, so it rounds
\* as the decimal value does unless that lies exactly on a half cent, where
\* the side of the binary64 error decides
Tax(subtotal) == RoundDiv(TAX_PERCENT * subtotal.c, 100, Sign(subtotal.d))

\* shipping = 0 if subtotal > 50 else 9.99, from the unrounded subtotal
Shipping(subtotal) ==
    IF FloatGreater(subtotal, FREE_SHIPPING_OVER) THEN 0 ELSE FLAT_SHIPPING

\* total = round(subtotal + tax + shipping, 2): the unrounded subtotal plus
\* two 2-decimal values, far closer to a whole cent than to a half cent
Total(subtotal, tax, shipping) == subtotal.c + tax + shipping

\* OrderDates reaching back one day before the signup date
OrderDates_before_signup(customer, t) == Midnight(customer.signup_date - 1) .. t

\* fake.date_time_between(start_date=customer['signup_date'],
\* end_date='now') at clock time t: a datetime from the start of the
\* signup day to t
OrderDates(customer, t) == Midnight(customer.signup_date) .. t

\* StatusChoices with an order of 7 days still counted as on its way
StatusChoices_week(days_since_order) ==
    IF days_since_order < 2 THEN EARLY_STATUSES
    ELSE IF days_since_order <= 7 THEN SHIPPED_STATUSES
    ELSE FINAL_STATUSES

\* the list the status is drawn from, by days_since_order
StatusChoices(days_since_order) ==
    IF days_since_order < 2 THEN EARLY_STATUSES
    ELSE IF days_since_order < 7 THEN SHIPPED_STATUSES
    ELSE FINAL_STATUSES

\* random.randint(2, 10) is drawn for a delivered order only
DeliveryDays(status) == IF status = "delivered" THEN DELIVERY_DAYS ELSE {0}

\* DeliveryDate set whatever the status is
DeliveryDate_any_status(order_date, status, delivery_days) ==
    << order_date + delivery_days * TicksPerDay >>

\* order_date + timedelta(days=...) if status == "delivered" else None
DeliveryDate(order_date, status, delivery_days) ==
    IF status = "delivered"
    THEN << order_date + delivery_days * TicksPerDay >>
    ELSE None

\* the order dict of iteration k
Order(k, customer, num_items, selected_products, order_date, status, delivery_days) ==
    LET subtotal == FloatSum([j \in DOMAIN selected_products |->
                                 selected_products[j].final_price])
        tax      == Tax(subtotal)
        shipping == Shipping(subtotal)
    IN  [ order_id      |-> << "ORD-", ZeroPad(k + 1, 7) >>,
          customer_id   |-> customer.customer_id,
          order_date    |-> order_date,
          status        |-> status,
          num_items     |-> num_items,
          subtotal      |-> StoredSubtotal(subtotal),
          tax           |-> tax,
          shipping      |-> shipping,
          total         |-> Total(subtotal, tax, shipping),
          delivery_date |-> DeliveryDate(order_date, status, delivery_days) ]

\* OrderItem with the customer's id written where the order's belongs
OrderItem_customer_id(o, product, quantity) ==
    [ order_id    |-> o.customer_id,
      product_id  |-> product.product_id,
      quantity    |-> quantity,
      unit_price  |-> product.final_price,
      total_price |-> product.final_price * quantity ]

\* the order item dict for one selected product
OrderItem(o, product, quantity) ==
    [ order_id    |-> o.order_id,
      product_id  |-> product.product_id,
      quantity    |-> quantity,
      unit_price  |-> product.final_price,
      total_price |-> product.final_price * quantity ]

\* df_products[df_products['category'].isin(preferred_cats)] with
\* probability 0.7 (use_preferred), else the whole catalogue
AvailableProducts(products, preferred_cats, use_preferred) ==
    IF use_preferred /\ preferred_cats # << >>
    THEN SelectSeq(products, LAMBDA p : p.category \in Range(preferred_cats))
    ELSE products

\* one iteration of the loop of generate_orders
GenerateOrder ==
    /\ pc = "orders"
    /\ i < n.orders
    /\ IF df_customers = << >>
       THEN Raise("ValueError")          \* df_customers.sample(1) of an empty frame
       ELSE IF df_products = << >>
       THEN Raise("KeyError")            \* an empty frame has no column
       ELSE \E customer \in Range(df_customers),
               num_items \in NUM_ITEMS_CHOICES,
               use_preferred \in BOOLEAN :
              LET available == AvailableProducts(df_products,
                                   customer.preferred_categories, use_preferred)
              IN  \E order_date \in OrderDates(customer, now),
                     selected \in Sample(available, Min(num_items, Len(available))) :
                  \E status \in StatusChoices(DaysBetween(now, order_date)) :
                  \E delivery_days \in DeliveryDays(status) :
                  \E o \in { Order(i, customer, num_items, selected,
                                   order_date, status, delivery_days) },
                     quantity \in [DOMAIN selected -> QUANTITY_CHOICES] :
                         /\ df_orders' = Append(df_orders, o)
                         /\ df_order_items' = df_order_items \o
                               [j \in DOMAIN selected |->
                                   OrderItem(o, selected[j], quantity[j])]
                         /\ i' = i + 1
                         /\ UNCHANGED << pc, err, n, df_products, df_customers,
                                         conversations, order, embeddings, written, now, rng, previous >>


\* ------------------------------------------------------------------------
\* generate_support_conversations
\* ------------------------------------------------------------------------

\* A template is held as the sequence of the slots {name} it contains, in
\* order of appearance; the literal text around the slots is left out.

SUPPORT_TEMPLATES ==
    [ product_inquiry |-> << << "product_type", "feature" >>,
                             << "product_type", "requirement" >>,
                             << "product_type", "use_case" >> >>,
      order_status    |-> << << "order_id", "days" >>,
                             << "order_id", "days" >>,
                             << "order_id" >> >>,
      return_request  |-> << << "product" >>,
                             << "product", "issue" >>,
                             << "product", "defect" >> >>,
      technical_issue |-> << << "product", "component" >>,
                             << "product", "time_period" >>,
                             << "product", "error_message" >> >>,
      price_inquiry   |-> << << "product", "old_price", "new_price" >>,
                             << "product" >>,
                             << "competitor", "product" >> >>,
      recommendation  |-> << << "product_type", "budget" >>,
                             << "product_type", "description" >>,
                             << "occasion", "budget" >> >> ]

AGENT_RESPONSES ==
    [ product_inquiry |-> << << "recommendation", "features", "rating" >>,
                             << "product", "reason" >>,
                             << "count", "product" >> >>,
      order_status    |-> << << "order_id", "status", "date" >>,
                             << "order_id", "date", "carrier", "tracking" >>,
                             << "order_id", "status", "date" >> >>,
      return_request  |-> << << "product", "email" >>,
                             << >>,
                             << >> >>,
      technical_issue |-> << << "step1", "step2" >>,
                             << "solution" >>,
                             << "diagnosis", "solution" >> >>,
      price_inquiry   |-> << << "reason", "discount" >>,
                             << "quantity", "discount" >>,
                             << "alternative" >> >>,
      recommendation  |-> << << "product1", "product2", "Product1", "comparison" >>,
                             << "list", "favorite", "reason" >>,
                             << "occasion", "product", "price", "special_feature" >> >> ]

\* list(SUPPORT_TEMPLATES.keys())
ISSUE_TYPES == DOMAIN SUPPORT_TEMPLATES

\* the value of a slot filled by random.choice / random.randint over a
\* fixed non-empty vocabulary, or by a literal: which word was drawn is
\* not kept
Choice == << "choice" >>

\* the value of a slot filled from a field of a table row
Field(name, row_id) == << name, row_id >>

\* the keyword arguments of template.format(...) for the customer message
MessageKwargs(issue_type, product, o) ==
    CASE issue_type = "product_inquiry" ->
           [ s \in {"product_type", "feature", "requirement", "use_case"} |-> Choice ]
      [] issue_type = "order_status" ->
           ( "order_id" :> o.order_id ) @@ ( "days" :> Choice )
      [] issue_type = "return_request" ->
           ( "product" :> Field("name", product.product_id) ) @@
           [ s \in {"issue", "defect"} |-> Choice ]
      [] issue_type = "technical_issue" ->
           ( "product" :> Field("name", product.product_id) ) @@
           [ s \in {"component", "time_period", "error_message"} |-> Choice ]
      [] issue_type = "price_inquiry" ->
           ( "product" :> Field("name", product.product_id) ) @@
           ( "old_price" :> Field("base_price", product.product_id) ) @@
           ( "new_price" :> Field("final_price", product.product_id) ) @@
           ( "competitor" :> Choice )
      [] OTHER ->
           [ s \in {"product_type", "budget", "description", "occasion"} |-> Choice ]

\* the keyword arguments of response_template.format(...); recommended is
\* the sequence of product rows the response draws (one row, or up to three
\* for a recommendation)
ResponseKwargs(issue_type, customer, product, o, recommended) ==
    CASE issue_type = "product_inquiry" ->
           ( "recommendation" :> Field("name", recommended[1].product_id) ) @@
           ( "rating" :> Field("rating", recommended[1].product_id) ) @@
           ( "product" :> Field("name", recommended[1].product_id) ) @@
           [ s \in {"features", "reason", "count"} |-> Choice ]
      [] issue_type = "order_status" ->
           ( "order_id" :> o.order_id ) @@
           ( "status" :> Field("status", o.order_id) ) @@
           [ s \in {"date", "carrier", "tracking"} |-> Choice ]
      [] issue_type = "return_request" ->
           ( "product" :> Field("name", product.product_id) ) @@
           ( "email" :> customer.email )
      [] issue_type = "technical_issue" ->
           [ s \in {"step1", "step2", "solution", "diagnosis"} |-> Choice ]
      [] issue_type = "price_inquiry" ->
           [ s \in {"reason", "discount", "quantity", "alternative"} |-> Choice ]
      [] OTHER ->
           ( "product1" :> IF Len(recommended) > 0
                           THEN Field("name", recommended[1].product_id) ELSE Choice ) @@
           ( "product2" :> IF Len(recommended) > 1
                           THEN Field("name", recommended[2].product_id) ELSE Choice ) @@
           ( "list" :> << "names", [j \in DOMAIN recommended |-> recommended[j].product_id] >> ) @@
           ( "favorite" :> Field("name", recommended[1].product_id) ) @@
           ( "product" :> Field("name", recommended[1].product_id) ) @@
           ( "price" :> Field("final_price", recommended[1].product_id) ) @@
           [ s \in {"comparison", "reason", "special_feature", "occasion"} |-> Choice ]

\* str.format(**kwargs): KeyError when the template names a slot that the
\* keyword arguments lack, else the text, held as its slot/value pairs
Format(template, kwargs) ==
    IF \E k \in DOMAIN template : template[k] \notin DOMAIN kwargs
    THEN [ kind |-> "raise", e |-> "KeyError", text |-> << >> ]
    ELSE [ kind |-> "ok", e |-> "none",
           text |-> [k \in DOMAIN template |-> << template[k], kwargs[template[k]] >>] ]

\* CustomerOrders without the customer_id mask
CustomerOrders_unmasked(orders, customer) == orders

\* df_orders[df_orders['customer_id'] == customer['customer_id']]
CustomerOrders(orders, customer) ==
    SelectSeq(orders, LAMBDA o : o.customer_id = customer.customer_id)

\* df_products[df_products['category'] == category]
ProductsOfCategory(products, category) ==
    SelectSeq(products, LAMBDA p : p.category = category)

\* The first half of an iteration: the outcomes of filling the customer
\* message.  An outcome is "skip" (continue), "raise" (an exception), or
\* "ok" with the text and the local variables the response will read:
\* category, product (a sequence of at most one row) and order.
MessageOutcomes(customer, issue_type, template) ==
    LET Out(kind, e, text, category, product, o) ==
            [ kind |-> kind, e |-> e, text |-> text,
              category |-> category, product |-> product, order |-> o ]
        Filled(product, o, category) ==
            LET f == Format(template, MessageKwargs(issue_type, product, o))
            IN  Out(f.kind, f.e, f.text, category,
                    IF product = << >> THEN << >> ELSE << product >>, o)
        NoColumn == Out("raise", "KeyError", << >>, << >>, << >>, order)
        EmptySample == Out("raise", "ValueError", << >>, << >>, << >>, order)
    IN  CASE issue_type = "product_inquiry" ->
               { Filled(<< >>, order, << c >>) : c \in CategoryKeys }
          [] issue_type = "order_status" ->
               IF Len(df_orders) > 0
               THEN IF Len(CustomerOrders(df_orders, customer)) > 0
                    THEN { Filled(<< >>, o, << >>) :
                             o \in Range(CustomerOrders(df_orders, customer)) }
                    ELSE { Out("skip", "none", << >>, << >>, << >>, order) }
               ELSE { Out("skip", "none", << >>, << >>, << >>, order) }
          [] issue_type \in {"return_request", "price_inquiry"} ->
               IF df_products = << >> THEN { EmptySample }
               ELSE { Filled(p, order, << >>) : p \in Range(df_products) }
          [] issue_type = "technical_issue" ->
               IF df_products = << >> THEN { NoColumn }
               ELSE IF ProductsOfCategory(df_products, "Electronics") = << >>
               THEN { EmptySample }
               ELSE { Filled(p, order, << >>) :
                        p \in Range(ProductsOfCategory(df_products, "Electronics")) }
          [] OTHER ->
               { Filled(<< >>, order, << c >>) : c \in CategoryKeys }

\* The second half of an iteration: the outcomes of filling the agent
\* response after the message outcome m.
ResponseOutcomes(customer, issue_type, response_template, m) ==
    LET Raised(e) == [ kind |-> "raise", e |-> e, text |-> << >> ]
        product == IF m.product = << >> THEN << >> ELSE m.product[1]
        Filled(recommended) ==
            Format(response_template,
                   ResponseKwargs(issue_type, customer, product, m.order, recommended))
    IN  CASE issue_type = "product_inquiry" ->
               IF df_products = << >> THEN { Raised("KeyError") }
               ELSE IF ProductsOfCategory(df_products, m.category[1]) = << >>
               THEN { Raised("ValueError") }
               ELSE { Filled(<< p >>) :
                        p \in Range(ProductsOfCategory(df_products, m.category[1])) }
          [] issue_type = "recommendation" ->
               IF df_products = << >> THEN { Raised("IndexError") }
               ELSE { Filled(r) : r \in Sample(df_products, Min(3, Len(df_products))) }
          [] OTHER -> { Filled(<< >>) }

\* the conversation dict of iteration k
Conversation(k, customer, issue_type, message, response) ==
    [ conversation_id  |-> << "CONV-", ZeroPad(k + 1, 6) >>,
      customer_id      |-> customer.customer_id,
      issue_type       |-> issue_type,
      customer_message |-> message,
      agent_message    |-> response ]

\* one iteration of the loop of generate_support_conversations
ConversationAttempt ==
    /\ pc = "conversations"
    /\ i < n.conversations
    /\ IF df_customers = << >>
       THEN Raise("ValueError")          \* df_customers.sample(1) of an empty frame
       ELSE \E customer \in Range(df_customers),
               issue_type \in ISSUE_TYPES,
               t \in 1..3, r \in 1..3 :
            \E m \in MessageOutcomes(customer, issue_type, SUPPORT_TEMPLATES[issue_type][t]) :
              CASE m.kind = "skip" ->
                     /\ i' = i + 1
                     /\ UNCHANGED << pc, err, n, tables, order, embeddings, written, now, rng, previous >>
                [] m.kind = "raise" -> Raise(m.e)
                [] OTHER ->
                     \E a \in ResponseOutcomes(customer, issue_type,
                                               AGENT_RESPONSES[issue_type][r], m) :
                        IF a.kind = "raise" THEN Raise(a.e)
                        ELSE /\ conversations' = Append(conversations,
                                    Conversation(i, customer, issue_type, m.text, a.text))
                             /\ order' = m.order
                             /\ i' = i + 1
                             /\ UNCHANGED << pc, err, n, df_products, df_customers,
                                             df_orders, df_order_items, embeddings, written, now, rng, previous >>


\* ------------------------------------------------------------------------
\* generate_all_data: the stages between the generator loops
\* ------------------------------------------------------------------------

\* a finished table is written to the output directory; the report that
\* follows reads a column of it, which an empty frame does not have
Stage(files, table, next) ==
    /\ written' = written \cup files
    /\ IF table = << >>
       THEN pc' = "error" /\ err' = "KeyError" /\ i' = i
       ELSE pc' = next /\ err' = err /\ i' = 0
    /\ UNCHANGED << n, tables, order, embeddings, now, rng, previous >>

WriteProducts ==
    /\ pc = "products"
    /\ i = n.products
    /\ Stage({"products.csv", "products.json"}, df_products, "customers")

WriteCustomers ==
    /\ pc = "customers"
    /\ i = n.customers
    /\ Stage({"customers.csv"}, df_customers, "orders")

WriteOrders ==
    /\ pc = "orders"
    /\ i = n.orders
    /\ Stage({"orders.csv", "order_items.csv"}, df_orders, "conversations")

WriteConversations ==
    /\ pc = "conversations"
    /\ i = n.conversations
    /\ Stage({"support_conversations.csv"}, conversations, "knowledge_base")

\* generate_knowledge_base returns a fixed, non-empty list of articles
WriteKnowledgeBase ==
    /\ pc = "knowledge_base"
    /\ written' = written \cup {"knowledge_base.csv", "knowledge_base.json"}
    /\ pc' = "embeddings"
    /\ UNCHANGED << err, n, i, tables, order, embeddings, now, rng, previous >>

\* length of an embedding vector
embedding_dim == 384

\* the sum of the squares of the components lo..hi of a vector
RECURSIVE SumSquaresOf(_, _, _)
SumSquaresOf(v, lo, hi) ==
    IF lo > hi THEN 0
    ELSE IF lo = hi THEN v[lo] * v[lo]
    ELSE SumSquaresOf(v, lo, (lo + hi) \div 2)
             + SumSquaresOf(v, (lo + hi) \div 2 + 1, hi)

\* np.linalg.norm(v), squared
SumSquares(v) == SumSquaresOf(v, 1, Len(v))

\* Normalize without the division
Normalize_unscaled(v) == [ components |-> v, norm2 |-> 1 ]

\* embedding / np.linalg.norm(embedding): every component divided by the
\* Euclidean norm.  The quotient vector is held exactly, as the components
\* before the division and the square of the divisor
Normalize(v) == [ components |-> v, norm2 |-> SumSquares(v) ]

\* the vectors explored for np.random.randn(embedding_dim), up to a common
\* scale: components between -3 and 3, not all of them zero
VectorDraws(multipliers) ==
    { [k \in 1..embedding_dim |-> ((a * k) % 7) - 3] : a \in multipliers }

\* the normalized vectors of the draws 1..count
NormalizedDraws(count) == { Normalize(v) : v \in VectorDraws(1..count) }

\* the embeddings explored in a full run, and when the function is looked
\* at on its own
PipelineVectors == NormalizedDraws(1)

ExploredVectors == NormalizedDraws(6)

\* generate_product_embeddings: one normalized vector of embedding_dim
\* numbers per product row, keyed by product_id; the vectors are taken
\* from the set vectors
GenerateProductEmbeddingsFrom(vectors) ==
    /\ pc = "embeddings"
    /\ embeddings' \in [ { p.product_id : p \in Range(df_products) } -> vectors ]
    /\ written' = written \cup {"product_embeddings.pkl"}
    /\ pc' = "done"
    /\ UNCHANGED << err, n, i, tables, order, now, rng, previous >>

GenerateProductEmbeddings == GenerateProductEmbeddingsFrom(PipelineVectors)

\* a generator called on its own returns its table when its loop ends
Return ==
    /\ pc \in {"products", "customers", "orders", "conversations"}
    /\ i = n[pc]
    /\ pc' = "returned"
    /\ UNCHANGED << err, n, i, tables, order, embeddings, written, now, rng, previous >>

\* ------------------------------------------------------------------------
\* Specifications
\* ------------------------------------------------------------------------

\* the requested counts explored for a full run
RunCounts ==
    { [products |-> 1, customers |-> 1, orders |-> 1, conversations |-> 1],
      [products |-> 2, customers |-> 1, orders |-> 1, conversations |-> 1],
      [products |-> 1, customers |-> 2, orders |-> 1, conversations |-> 1],
      [products |-> 1, customers |-> 1, orders |-> 2, conversations |-> 1],
      [products |-> 0, customers |-> 1, orders |-> 1, conversations |-> 1],
      [products |-> 1, customers |-> 0, orders |-> 1, conversations |-> 1] }

\* generate_all_data(n_products, n_customers, n_orders, n_conversations)
Init ==
    /\ pc = "products"
    /\ err = "none"
    /\ n \in RunCounts
    /\ i = 0
    /\ df_products = << >>
    /\ df_customers = << >>
    /\ df_orders = << >>
    /\ df_order_items = << >>
    /\ conversations = << >>
    /\ order = << >>
    /\ embeddings = << >>
    /\ written = {}
    /\ now = Midnight(RunDay)
    /\ rng = Unseeded
    /\ previous = None

Next ==
    \/ GenerateProduct
    \/ WriteProducts
    \/ GenerateCustomer
    \/ WriteCustomers
    \/ GenerateOrder
    \/ WriteOrders
    \/ ConversationAttempt
    \/ WriteConversations
    \/ WriteKnowledgeBase
    \/ GenerateProductEmbeddings

Spec == Init /\ [][Next]_vars


\* the catalogue generate_products returns for a sequence of draws of
\* category, base price and discount, with the catalogue dates
Catalogue(draws) ==
    [k \in DOMAIN draws |->
        Product(k - 1, draws[k].category, draws[k].base, draws[k].discount,
                CatalogueCreated, CatalogueUpdated)]

\* the table generate_customers returns for a sequence of draws
CustomerTable(draws) == [k \in DOMAIN draws |-> Customer(k - 1, draws[k])]

\* the customer tables handed to a generator called on its own: one
\* customer whose preferred category is in every catalogue below, one whose
\* preferred categories are in none
InputCustomers ==
    CustomerTable(<< [ signup_date |-> RunDay, segment |-> "new", total_orders |-> 0,
                       total_spent |-> 19999, preferred |-> << "Books & Media" >> ],
                     [ signup_date |-> RunDay, segment |-> "new", total_orders |-> 0,
                       total_spent |-> 19999,
                       preferred |-> << "Clothing", "Home & Kitchen" >> ] >>)

MaxOrders == 1

\* the catalogues handed to generate_orders: final prices 12.00, 25.87 and
\* 12.13 (together exactly 50.00), and final prices 59.99 and 20.00
OrderCatalogues ==
    { Catalogue(<< [category |-> "Books & Media", base |-> 12000, discount |-> 0],
                   [category |-> "Books & Media", base |-> 25870, discount |-> 0],
                   [category |-> "Books & Media", base |-> 12130, discount |-> 0] >>),
      Catalogue(<< [category |-> "Electronics",   base |-> 59990, discount |-> 0],
                   [category |-> "Books & Media", base |-> 24996, discount |-> 20] >>) }

\* generate_orders(df_customers, df_products, n_orders): one order from the
\* catalogue of three products, up to MaxOrders from the catalogue of two
InitOrders ==
    /\ pc = "orders"
    /\ err = "none"
    /\ df_products \in OrderCatalogues
    /\ df_customers = InputCustomers
    /\ \E k \in 1..(IF Len(df_products) > 2 THEN 1 ELSE MaxOrders) :
         n = [products |-> Len(df_products), customers |-> Len(df_customers),
              orders |-> k, conversations |-> 0]
    /\ i = 0
    /\ df_orders = << >>
    /\ df_order_items = << >>
    /\ conversations = << >>
    /\ order = << >>
    /\ embeddings = << >>
    /\ written = {}
    /\ now = Midnight(RunDay)
    /\ rng = Unseeded
    /\ previous = None

NextOrders == GenerateOrder \/ Return

SpecOrders == InitOrders /\ [][NextOrders]_vars

MaxConversations == 2

\* the catalogues handed to generate_support_conversations: with and
\* without a product of category Electronics
ConversationCatalogues ==
    { Catalogue(<< [category |-> "Electronics",   base |-> 59990, discount |-> 0] >>),
      Catalogue(<< [category |-> "Books & Media", base |-> 24996, discount |-> 20] >>) }

\* the order tables handed to generate_support_conversations: the orders
\* generate_orders returns when each order in turn goes to the listed
\* customer, is placed at the start of the customer's signup day, is
\* pending and takes the first product; either there is no order, or the
\* first customer has two (the second customer has no order)
OrderTable(products, customers, owners) ==
    [k \in DOMAIN owners |->
        Order(k - 1, customers[owners[k]], 1, << products[1] >>,
              Midnight(customers[owners[k]].signup_date), "pending", 0)]

InputOwners == { << >>, << 1, 1 >> }

\* generate_support_conversations(df_customers, df_products, df_orders, n)
InitConv ==
    /\ pc = "conversations"
    /\ err = "none"
    /\ df_products \in ConversationCatalogues
    /\ df_customers = InputCustomers
    /\ \E owners \in InputOwners :
         df_orders = OrderTable(df_products, df_customers, owners)
    /\ \E k \in 1..MaxConversations :
         n = [products |-> Len(df_products), customers |-> Len(df_customers),
              orders |-> Len(df_orders), conversations |-> k]
    /\ i = 0
    /\ df_order_items = << >>
    /\ conversations = << >>
    /\ order = << >>
    /\ embeddings = << >>
    /\ written = {}
    /\ now = Midnight(RunDay)
    /\ rng = Unseeded
    /\ previous = None

NextConv == ConversationAttempt \/ Return

SpecConv == InitConv /\ [][NextConv]_vars

\* the base prices explored when prices are looked at, in thousandths of a
\* dollar: the low end and the high end of the range of Books & Media
PriceBases == (10000..10040) \cup (149960..150000)

\* the decimal value of neither the base price nor the discounted price
\* lies exactly on a half cent, so that round(x, 2) does not depend on the
\* binary64 error of x
NoHalfCent(base_mills, discount) ==
    /\ base_mills % 10 # 5
    /\ (base_mills * (100 - discount)) % 1000 # 500

\* the draws explored when generate_products is called on its own: every
\* discount on every explored base price, with dates at the ends of their
\* ranges
PriceDraws ==
    { d \in [ category     : { "Books & Media" },
              base         : PriceBases,
              discount     : DISCOUNTS,
              created_date : { RunDay - CREATED_DAYS, RunDay - 183, RunDay - 1 },
              updated_date : { RunDay - 183, RunDay - 1, RunDay } ] :
        NoHalfCent(d.base, d.discount) }

\* generate_products(1)
InitProducts ==
    /\ pc = "products"
    /\ err = "none"
    /\ n = [products |-> 1, customers |-> 0, orders |-> 0, conversations |-> 0]
    /\ i = 0
    /\ df_products = << >>
    /\ df_customers = << >>
    /\ df_orders = << >>
    /\ df_order_items = << >>
    /\ conversations = << >>
    /\ order = << >>
    /\ embeddings = << >>
    /\ written = {}
    /\ now = Midnight(RunDay)
    /\ rng = Unseeded
    /\ previous = None

NextProducts == GenerateProductFrom(PriceDraws) \/ Return

SpecProducts == InitProducts /\ [][NextProducts]_vars

\* the total_spent values explored when customer aggregates are looked at,
\* in thousandths of a dollar: around the ends of the segment ranges
SpentValues ==
    (0..30) \cup (99990..100030) \cup (199970..200000) \cup (999970..1000030)
        \cup (4999970..5000030) \cup (49999970..50000000)

\* the draws explored when generate_customers is called on its own: every
\* segment with total_orders at the ends of its range
AggregateDraws ==
    [ signup_date  : { RunDay },
      segment      : DOMAIN SEGMENTS,
      total_orders : { 0, 1, 2, 10, 50, 200 },
      total_spent  : SpentValues,
      preferred    : { << "Electronics" >> } ]

\* generate_customers(1)
InitCustomers ==
    /\ pc = "customers"
    /\ err = "none"
    /\ n = [products |-> 0, customers |-> 1, orders |-> 0, conversations |-> 0]
    /\ i = 0
    /\ df_products = << >>
    /\ df_customers = << >>
    /\ df_orders = << >>
    /\ df_order_items = << >>
    /\ conversations = << >>
    /\ order = << >>
    /\ embeddings = << >>
    /\ written = {}
    /\ now = Midnight(RunDay)
    /\ rng = Unseeded
    /\ previous = None

NextCustomers == GenerateCustomerFrom(AggregateDraws) \/ Return

SpecCustomers == InitCustomers /\ [][NextCustomers]_vars

\* the generators seeded when the module is imported and generate_all_data
\* is called
SEEDED_ON_IMPORT == { "random", "numpy" }

\* the generators seeded when the module is run from the command line
SEEDED_BY_MAIN == { "random", "numpy", "faker" }

\* what a seed fixes, as far as it is explored: the draws of the module
\* random for a product, and the draws of the date library as a number of
\* days, created_date from the start of its range and updated_date back
\* from today
SeedStreams ==
    [ random : [ category : { "Books & Media" }, base : { 24996, 10026 },
                 discount : { 0, 20 } ],
      faker  : [ created : { 0, 1 }, updated : { 0, 1 } ] ]

\* the draws of one iteration of generate_products under the seeding r on
\* the day today: those of a seeded generator are the ones the seed fixes,
\* those of a generator that was not seeded can take any value
SeededProductDraws(r, today) ==
    [ category     : { r.random.category },
      base         : { r.random.base },
      discount     : { r.random.discount },
      created_date : { today - CREATED_DAYS + k :
                         k \in IF "faker" \in r.seeded THEN { r.faker.created }
                                                      ELSE { 0, 1 } },
      updated_date : { today - k :
                         k \in IF "faker" \in r.seeded THEN { r.faker.updated }
                                                      ELSE { 0, 1 } } ]

GenerateProductSeeded == GenerateProductFrom(SeededProductDraws(rng, Today(now)))

\* the same run is started again with the same seed and counts, on the
\* same day or on the next; the tables of the first run are kept aside
Rerun ==
    /\ pc = "returned"
    /\ previous = None
    /\ previous' = tables
    /\ pc' = "products"
    /\ i' = 0
    /\ df_products' = << >>
    /\ \E t \in { now, now + TicksPerDay } : now' = t
    /\ UNCHANGED << err, n, df_customers, df_orders, df_order_items,
                    conversations, order, embeddings, written, rng >>

\* generate_products(1) as the first stage of a run started from the
\* command line or by a call of generate_all_data after import
InitSeeded ==
    /\ pc = "products"
    /\ err = "none"
    /\ n = [products |-> 1, customers |-> 0, orders |-> 0, conversations |-> 0]
    /\ i = 0
    /\ df_products = << >>
    /\ df_customers = << >>
    /\ df_orders = << >>
    /\ df_order_items = << >>
    /\ conversations = << >>
    /\ order = << >>
    /\ embeddings = << >>
    /\ written = {}
    /\ now = Midnight(RunDay)
    /\ \E seeded \in { SEEDED_ON_IMPORT, SEEDED_BY_MAIN }, stream \in SeedStreams :
         rng = [ seeded |-> seeded, random |-> stream.random, faker |-> stream.faker ]
    /\ previous = None

NextSeeded == GenerateProductSeeded \/ Return \/ Rerun

SpecSeeded == InitSeeded /\ [][NextSeeded]_vars

\* the last stage of generate_all_data, generate_product_embeddings, on a
\* catalogue of one, two or three products
InitEmbeddings ==
    /\ pc = "embeddings"
    /\ err = "none"
    /\ df_products \in OrderCatalogues \cup ConversationCatalogues
    /\ n = [products |-> Len(df_products), customers |-> 0, orders |-> 0,
            conversations |-> 0]
    /\ i = 0
    /\ df_customers = << >>
    /\ df_orders = << >>
    /\ df_order_items = << >>
    /\ conversations = << >>
    /\ order = << >>
    /\ embeddings = << >>
    /\ written = {}
    /\ now = Midnight(RunDay)
    /\ rng = Unseeded
    /\ previous = None

NextEmbeddings == GenerateProductEmbeddingsFrom(ExploredVectors)

SpecEmbeddings == InitEmbeddings /\ [][NextEmbeddings]_vars

\* the number of products already generated when the run of
\* generate_products below is taken up, and the number it generates in all
IdStart == 99999

IdCount == 100110

\* the draw of every iteration of that run
IdDraw ==
    [ category |-> "Books & Media", base |-> 24996, discount |-> 20,
      created_date |-> CatalogueCreated, updated_date |-> CatalogueUpdated ]

\* generate_products(IdCount) after IdStart iterations
InitIds ==
    /\ pc = "products"
    /\ err = "none"
    /\ n = [products |-> IdCount, customers |-> 0, orders |-> 0, conversations |-> 0]
    /\ i = IdStart
    /\ df_products = Catalogue([k \in 1..IdStart |-> IdDraw])
    /\ df_customers = << >>
    /\ df_orders = << >>
    /\ df_order_items = << >>
    /\ conversations = << >>
    /\ order = << >>
    /\ embeddings = << >>
    /\ written = {}
    /\ now = Midnight(RunDay)
    /\ rng = Unseeded
    /\ previous = None

NextIds == GenerateProductFrom({ IdDraw }) \/ Return

SpecIds == InitIds /\ [][NextIds]_vars

\* the number of ticks the clock may advance while a run is watched
MaxTicks == 1

\* time passes while the generator runs
Tick ==
    /\ pc \notin { "done", "returned", "error" }
    /\ now < Midnight(RunDay) + MaxTicks
    /\ now' = now + 1
    /\ UNCHANGED << pc, err, n, i, tables, order, embeddings, written, rng, previous >>

\* the customers handed to generate_orders when dates are looked at: one
\* signed up eight days before the run, one on the day of the run
DatedCustomers ==
    CustomerTable(<< [ signup_date |-> RunDay - 8, segment |-> "occasional",
                       total_orders |-> 3, total_spent |-> 250010,
                       preferred |-> << "Books & Media" >> ],
                     [ signup_date |-> RunDay, segment |-> "new", total_orders |-> 0,
                       total_spent |-> 19999, preferred |-> << "Electronics" >> ] >>)

\* generate_orders(df_customers, df_products, 1) on a one-product
\* catalogue, while the clock runs
InitDates ==
    /\ pc = "orders"
    /\ err = "none"
    /\ df_products =
         Catalogue(<< [category |-> "Books & Media", base |-> 24996, discount |-> 20] >>)
    /\ df_customers = DatedCustomers
    /\ n = [products |-> 1, customers |-> 2, orders |-> 1, conversations |-> 0]
    /\ i = 0
    /\ df_orders = << >>
    /\ df_order_items = << >>
    /\ conversations = << >>
    /\ order = << >>
    /\ embeddings = << >>
    /\ written = {}
    /\ now = Midnight(RunDay)
    /\ rng = Unseeded
    /\ previous = None

NextDates == GenerateOrder \/ Return \/ Tick

SpecDates == InitDates /\ [][NextDates]_vars


\* ------------------------------------------------------------------------
\* Properties
\* ------------------------------------------------------------------------

ItemsOf(o) == SelectSeq(df_order_items, LAMBDA it : it.order_id = o.order_id)

\* the values a text gives to a slot
SlotValues(text, slot) == { text[k][2] : k \in { j \in DOMAIN text : text[j][1] = slot } }

\* C1: filling a chosen message or response template never fails on a slot
\* that the keyword arguments of its issue category lack (with a non-empty
\* catalogue a KeyError can only come from str.format).
C1_FillNeverMissesSlot == ~(err = "KeyError" /\ df_products # << >>)

\* C2: with a non-empty product table and a non-empty customer table no
\* draw is taken from an empty pool: no attempt ends in the error of an
\* empty sample.
C2_DrawsNonEmpty ==
    (df_products # << >> /\ df_customers # << >>) => err \notin {"ValueError", "IndexError"}

C4_ItemTotalsAddUpToSubtotal ==
    \A k \in DOMAIN df_orders :
        SeqSum([j \in DOMAIN ItemsOf(df_orders[k]) |-> ItemsOf(df_orders[k])[j].total_price])
            = df_orders[k].subtotal

\* C5: every reference resolves: the customer_id of an order and of a
\* conversation is the id of a generated customer, the order_id of an order
\* item is the id of a generated order and its product_id the id of a
\* generated product.
C5_ReferencesResolve ==
    LET customer_ids == { c.customer_id : c \in Range(df_customers) }
        order_ids    == { o.order_id : o \in Range(df_orders) }
        product_ids  == { p.product_id : p \in Range(df_products) }
    IN  /\ \A o \in Range(df_orders) : o.customer_id \in customer_ids
        /\ \A it \in Range(df_order_items) :
              it.order_id \in order_ids /\ it.product_id \in product_ids
        /\ \A c \in Range(conversations) : c.customer_id \in customer_ids

\* a finished run that produced orders, order items and conversations
C5_Witness ==
    /\ pc = "done"
    /\ df_order_items # << >>
    /\ conversations # << >>

\* C6: an order_status conversation names one order, the same in the
\* customer message and in the agent response; that order is in the order
\* table and belongs to the customer of the conversation.
C6_OrderStatusNamesOwnOrder ==
    \A c \in Range(conversations) :
        c.issue_type = "order_status" =>
            \E o \in Range(df_orders) :
                /\ o.customer_id = c.customer_id
                /\ SlotValues(c.customer_message, "order_id") = { o.order_id }
                /\ SlotValues(c.agent_message, "order_id") = { o.order_id }

\* an order_status conversation was emitted while another customer has no
\* order
C6_Witness ==
    /\ \E c \in Range(conversations) : c.issue_type = "order_status"
    /\ \E cu \in Range(df_customers) : CustomerOrders(df_orders, cu) = << >>

\* the loop iterations begun so far: an exception ends the run inside one
AttemptsMade == IF pc = "error" THEN i + 1 ELSE i

\* C7: a call with target P ends after exactly P attempts, with at most P
\* records.
C7_ExactlyPAttempts ==
    pc \in {"returned", "error"} =>
        /\ AttemptsMade = n.conversations
        /\ Len(conversations) <= n.conversations

\* C8: with a non-empty catalogue every order receives at least one order
\* item (the full catalogue replaces an empty preferred pool).
C8_EveryOrderHasAnItem ==
    df_products # << >> => \A o \in Range(df_orders) : ItemsOf(o) # << >>

\* C9: for every order, tax is the stored subtotal times 0.08 rounded to
\* the nearest cent (to the even cent on a tie) and total is the stored
\* subtotal plus tax plus shipping.
C9_TaxAndTotal ==
    \A o \in Range(df_orders) :
        LET exact == TAX_PERCENT * o.subtotal      \* the tax in 1/100 cent
            diff  == 100 * o.tax - exact
        IN  /\ diff >= -50 /\ diff <= 50
            /\ (diff = 50 \/ diff = -50) => o.tax % 2 = 0
            /\ o.total = o.subtotal + o.tax + o.shipping

\* an order whose tax was rounded up to the next cent
C9_Witness ==
    \E o \in Range(df_orders) : (TAX_PERCENT * o.subtotal) % 100 > 50

\* C10: shipping is 0 exactly when the stored subtotal exceeds 50.00, and
\* is 9.99 otherwise.
C10_ShippingBySubtotal ==
    \A o \in Range(df_orders) :
        /\ o.shipping = 0 <=> o.subtotal > FREE_SHIPPING_OVER
        /\ o.subtotal <= FREE_SHIPPING_OVER => o.shipping = FLAT_SHIPPING

\* the customer an order references
CustomerOf(o) == CHOOSE c \in Range(df_customers) : c.customer_id = o.customer_id

\* the orders a step appends to the order table
NewOrders == { df_orders'[k] : k \in DOMAIN df_orders' \ DOMAIN df_orders }

\* C11: every order that is generated has a timestamp not earlier than the
\* start of the signup date of the customer it references and not later
\* than the clock at the time it is generated.
C11_OrderDateBetweenSignupAndNow ==
    [][ \A o \in NewOrders :
          /\ Midnight(CustomerOf(o).signup_date) <= o.order_date
          /\ o.order_date <= now ]_vars

\* an order was placed at the very start of its customer's signup day,
\* before another customer signed up, and the clock has advanced since the
\* start of the run
C11_Witness ==
    /\ now > Midnight(RunDay)
    /\ \E o \in Range(df_orders) :
          /\ o.order_date = Midnight(CustomerOf(o).signup_date)
          /\ \E c \in Range(df_customers) : Midnight(c.signup_date) > o.order_date

\* C12: an order has a delivery date exactly when its status is delivered,
\* and that date is then after the order timestamp, at least 2 and at most
\* 10 days later.
C12_DeliveryDateIffDelivered ==
    \A o \in Range(df_orders) :
        /\ o.delivery_date # None <=> o.status = "delivered"
        /\ o.delivery_date # None =>
              /\ o.delivery_date[1] > o.order_date
              /\ o.delivery_date[1] - o.order_date >= 2 * TicksPerDay
              /\ o.delivery_date[1] - o.order_date <= 10 * TicksPerDay

\* a delivered order whose delivery date is the latest one possible
C12_Witness ==
    \E o \in Range(df_orders) :
        /\ o.status = "delivered"
        /\ o.delivery_date = << o.order_date + 10 * TicksPerDay >>

\* C13: the status of an order that is generated follows from the whole
\* days between its timestamp and the clock at that time: fewer than 2 days
\* give pending or processing, 2 to 6 days give shipped or in_transit, 7 or
\* more days give delivered, cancelled or returned; there is no other
\* status.
C13_StatusByDaysSinceOrder ==
    [][ \A o \in NewOrders :
          LET days == DaysBetween(now, o.order_date)
          IN  /\ days < 2 => o.status \in { "pending", "processing" }
              /\ (days >= 2 /\ days < 7) => o.status \in { "shipped", "in_transit" }
              /\ days >= 7 => o.status \in { "delivered", "cancelled", "returned" }
              /\ o.status \in { "pending", "processing", "shipped", "in_transit",
                                 "delivered", "cancelled", "returned" } ]_vars

\* an order generated exactly 7 days after its timestamp, not delivered,
\* the clock still where it was at generation
C13_Witness ==
    /\ now = Midnight(RunDay)
    /\ rng = Unseeded
    /\ previous = None
    /\ \E o \in Range(df_orders) :
          /\ DaysBetween(now, o.order_date) = 7
          /\ now - o.order_date > 7 * TicksPerDay
          /\ o.status = "returned"

\* the values round(v, 2) can take for v = x/den cents, whichever way an
\* exact half cent goes
RoundingsOf(x, den) == { RoundDiv(x, den, -1), RoundDiv(x, den, 1) }

\* C14: the stored final_price of a product is the stored base_price times
\* (1 - discount_percent/100), rounded to 2 decimals, and discount_percent
\* is 0, 5, 10, 15, 20, 25 or 30.
C14_FinalPriceFromStoredBase ==
    \A p \in Range(df_products) :
        /\ p.discount_percent \in { 0, 5, 10, 15, 20, 25, 30 }
        /\ p.final_price \in
              RoundingsOf(p.base_price * (100 - p.discount_percent), 100)

\* C15: the stored final_price of a product is at most its stored
\* base_price.
C15_FinalAtMostBase ==
    \A p \in Range(df_products) : p.final_price <= p.base_price

\* a product without discount: its two stored prices are equal
C15_Witness ==
    \E p \in Range(df_products) :
        p.discount_percent = 0 /\ p.final_price = p.base_price

\* C16: computing average_order_value never fails on a division, also for
\* a customer of the segment new with total_orders = 0, and the stored
\* average_order_value times max(total_orders, 1) equals the stored
\* total_spent up to the rounding of the two stored values: half a cent for
\* total_spent and half a cent for each order counted.
C16_AverageOrderValue ==
    /\ err # "ZeroDivisionError"
    /\ \A c \in Range(df_customers) :
          LET orders   == IF c.total_orders > 1 THEN c.total_orders ELSE 1
              distance == c.average_order_value * orders - c.total_spent
          IN  /\ 2 * distance <= orders + 1
              /\ 2 * (0 - distance) <= orders + 1

\* a customer of the segment new without any order, who has spent
\* something: the average is the whole of it
C16_Witness ==
    \E c \in Range(df_customers) :
        /\ c.segment = "new"
        /\ c.total_orders = 0
        /\ c.total_spent > 0
        /\ c.average_order_value = c.total_spent

\* C17: the created_date of a product is not later than its updated_date.
C17_CreatedBeforeUpdated ==
    \A p \in Range(df_products) : p.created_date <= p.updated_date

\* a product created and updated on the same day, the day the offset
\* "-6m" stands for
C17_Witness ==
    \E p \in Range(df_products) :
        /\ p.created_date = p.updated_date
        /\ p.created_date \in OffsetDates(Today(now))

\* C18: a run repeated with the same seed and the same counts, started
\* from the command line or by a call of generate_all_data, ends with the
\* same tables as the first.
C18_SameSeedSameTables ==
    (pc = "returned" /\ previous # None) => tables = previous

\* C19: the keys of the mapping returned by generate_product_embeddings
\* are exactly the product identifiers of the product table, and every
\* value is a vector of 384 components whose Euclidean norm is 1 (the sum of
\* the squares of the components equals the square of the divisor).
C19_EmbeddingsKeysAndNorm ==
    pc = "done" =>
        /\ DOMAIN embeddings = { p.product_id : p \in Range(df_products) }
        /\ \A id \in DOMAIN embeddings :
              /\ Len(embeddings[id].components) = 384
              /\ SumSquares(embeddings[id].components) = embeddings[id].norm2

\* the embeddings of a catalogue of three products, two of them with
\* different vectors
C19_Witness ==
    /\ pc = "done"
    /\ Len(df_products) = 3
    /\ \E a, b \in DOMAIN embeddings : embeddings[a] # embeddings[b]

\* the number a sequence of decimal digits stands for
RECURSIVE DigitsValueOf(_, _)
DigitsValueOf(ds, k) == IF k = 0 THEN 0 ELSE 10 * DigitsValueOf(ds, k - 1) + ds[k]

DigitsValue(ds) == DigitsValueOf(ds, Len(ds))

\* an identifier made of the prefix and the number k written with exactly
\* width digits
IsIdOf(id, prefix, width, k) ==
    /\ id[1] = prefix
    /\ Len(id[2]) = width
    /\ DigitsValue(id[2]) = k

\* C20: in the product, customer and order tables the i-th record carries
\* the identifier with number i, zero-padded to a fixed width (5, 6 and 7
\* digits); the identifiers of a table are then pairwise distinct and
\* their numbers are exactly 1..count.
C20_SequentialFixedWidthIds ==
    /\ \A k \in DOMAIN df_products : IsIdOf(df_products[k].product_id, "PROD-", 5, k)
    /\ \A k \in DOMAIN df_customers : IsIdOf(df_customers[k].customer_id, "CUST-", 6, k)
    /\ \A k \in DOMAIN df_orders : IsIdOf(df_orders[k].order_id, "ORD-", 7, k)

\* C21: when zero products or zero customers are requested together with
\* a positive number of orders or conversations, the run fails before any
\* table is generated and before any file is written to the output
\* directory, and it does not complete.
C21_ZeroSizeFailsAtOnce ==
    ( /\ n.products = 0 \/ n.customers = 0
      /\ n.orders > 0 \/ n.conversations > 0 ) =>
        /\ written = {}
        /\ tables = << << >>, << >>, << >>, << >>, << >> >>
        /\ pc # "done"

\* C22: every order item has a quantity of 1, 2 or 3, a unit_price equal to
\* the final_price of the product it references, and a total_price equal to
\* unit_price times quantity rounded to cents (prices are whole cents, so
\* the product is already a whole number of cents).
C22_ItemQuantityAndPrices ==
    \A j \in DOMAIN df_order_items :
        LET item == df_order_items[j]
        IN  /\ item.quantity \in {1, 2, 3}
            /\ \A p \in Range(df_products) :
                    p.product_id = item.product_id => item.unit_price = p.final_price
            /\ \E p \in Range(df_products) : p.product_id = item.product_id
            /\ item.total_price = RoundDiv(100 * item.unit_price * item.quantity, 100, 0)

\* C22 case: an order holds three units of a discounted product and one unit
\* of another product
C22_Witness ==
    \E j, k \in DOMAIN df_order_items :
        /\ df_order_items[j].order_id = df_order_items[k].order_id
        /\ df_order_items[j].quantity = 3
        /\ df_order_items[k].quantity = 1
        /\ \E p \in Range(df_products) :
                /\ p.product_id = df_order_items[j].product_id
                /\ p.discount_percent > 0
                /\ df_order_items[j].total_price = 3 * p.final_price

\* C23: for every order the stored num_items is the number of order items
\* carrying its order_id, and these items reference pairwise distinct
\* products, whatever the size of the candidate pool.
C23_NumItemsCountsItems ==
    \A o \in Range(df_orders) :
        LET items == ItemsOf(o)
        IN  /\ o.num_items = Len(items)
            /\ \A j, k \in DOMAIN items :
                    items[j].product_id = items[k].product_id => j = k

\* C24: after a full run, the total_orders of every customer is the number
\* of records of the order table that carry its customer_id.
C24_TotalOrdersCountsOrders ==
    pc = "done" =>
        \A c \in Range(df_customers) :
            c.total_orders =
                Cardinality({ k \in DOMAIN df_orders : df_orders[k].customer_id = c.customer_id })

\* C25: every order generated with status delivered has a delivery_date not
\* later than the clock at the time it is generated.
C25_DeliveredNotInFuture ==
    [][ \A o \in NewOrders :
          o.status = "delivered" => o.delivery_date # None /\ o.delivery_date[1] <= now ]_vars

====
